---- MODULE Spec2Model ----
(***************************************************************************)
(* A model of FocusGame.py: the game Focus/Domination for two players on   *)
(* a 6x6 board of piece stacks (class Queue), two Player records and the    *)
(* FocusGame engine with its two mutating operations, reserved_move and     *)
(* move_piece.                                                              *)
(*                                                                          *)
(* Each operation is one action that models the whole method: every check   *)
(* in the order of the code, every return site, the exceptions the code     *)
(* raises (KeyError on an unknown player name, IndexError on display_top    *)
(* of an empty stack), and every mutation up to the return.                 *)
(*                                                                          *)
(* The caller is modelled as follows.  A full game of 6x6 Focus has far too *)
(* many positions to enumerate, so the caller replays a recorded game       *)
(* (Script, a legal game of 37 operations that ends in a win) and, after    *)
(* any operation of the replay (or before the first), may issue one         *)
(* arbitrary request: any player name of InputNames, any positions of       *)
(* InputPos, any count of Counts.  If that request is rejected the caller   *)
(* goes on with the replay; if it is accepted the caller stops.             *)
(***************************************************************************)
EXTENDS Integers, Sequences, FiniteSets, TLC

---------------------------------------------------------------------------
(* Program constants *)

MAX_HEIGHT == 5

BoardSize == 6

WinCaptured == 18

(* Bounds of the caller's inputs *)

OutMargin == 1

MaxCount == 5

---------------------------------------------------------------------------
(* The two players FocusGame is constructed with, player_a first. *)

first_player == "A"

second_player == "B"

players == {first_player, second_player}

piece == [p \in players |-> IF p = first_player THEN "R" ELSE "G"]

(* The value of _player_turn once the game is won (Python None). *)
NoPlayer == "None"

(* A name that is not a key of _players. *)
Stranger == "Z"

Index == 0 .. (BoardSize - 1)

Pos == Index \X Index

VARIABLES
    game_board,    \* FocusGame._game_board: position -> Queue.data, bottom first
    reserve,       \* Player._reserve of each player
    captured,      \* Player._captured of each player
    player_turn,   \* FocusGame._player_turn
    last,          \* the last request and what it returned
    prev,          \* game_board, reserve, captured, player_turn before the last request
    idx,           \* caller: number of operations of Script replayed
    mode,          \* caller: "replay", "probe" or "left"
    asked          \* caller: the request it made, when it keeps a log (SpecFirst)

prog == <<game_board, reserve, captured, player_turn>>

vars == <<game_board, reserve, captured, player_turn, last, prev, idx, mode, asked>>

---------------------------------------------------------------------------
(* class Queue *)

Max(a, b) == IF a > b THEN a ELSE b

Min(a, b) == IF a < b THEN a ELSE b

(* Python's normalisation of a slice bound i for a list of length len. *)
PyBound(i, len) == IF i < 0 THEN Max(len + i, 0) ELSE Min(i, len)

(* data[i:] *)
PySliceFrom(data, i) == SubSeq(data, PyBound(i, Len(data)) + 1, Len(data))

(* data[:j] *)
PySliceTo(data, j) == SubSeq(data, 1, PyBound(j, Len(data)))

QueueInit(first_member) == <<first_member>>

(* enqueue inserting at index 0 *)
enqueue_front(data, value) == <<value>> \o data

enqueue(data, value) == Append(data, value)

(* dequeue without the del *)
dequeue_keep(data) == [value |-> Head(data), data |-> data]

dequeue(data) == [value |-> Head(data), data |-> Tail(data)]

(* display_top reading index 0 *)
display_top_bottom(data) == data[1]

display_top(data) == data[Len(data)]

remove_items(data, num_pieces) ==
    [removed_pieces |-> PySliceFrom(data, 0 - num_pieces),
     data |-> PySliceTo(data, 0 - num_pieces)]

(* add_items with the pieces put under the stack *)
add_items_below(data, pieces_to_add) == pieces_to_add \o data

add_items(data, pieces_to_add) == data \o pieces_to_add

(* get_length counting one piece too many *)
get_length_one_more(data) == Len(data) + 1

get_length(data) == Len(data)

---------------------------------------------------------------------------
(* class Player *)

add_captured(n) == n + 1

(* add_reserved with the wrong sign *)
add_reserved_wrong_sign(n) == n - 1

add_reserved(n) == n + 1

(* remove_reserved that never subtracts *)
remove_reserved_noop(n) == n

remove_reserved(n) == IF n > 0 THEN n - 1 ELSE n - 0

---------------------------------------------------------------------------
(* class FocusGame: helpers *)

(* every row laid out like row 0 *)
InitialRow_same(r) == <<"R", "R", "G", "G", "R", "R">>

InitialRow(r) == IF r % 2 = 0 THEN <<"R", "R", "G", "G", "R", "R">>
                 ELSE <<"G", "G", "R", "R", "G", "G">>

InitialBoard == [pos \in Pos |-> QueueInit(InitialRow(pos[1])[pos[2] + 1])]

check_position(row, column) ==
    IF row \notin Index THEN FALSE
    ELSE IF column \notin Index THEN FALSE
    ELSE TRUE

Abs(x) == IF x < 0 THEN 0 - x ELSE x

(* check_move without the tests that the row or the column stays the same *)
check_move_any_line(start_row, start_column, end_row, end_column, num_pieces) ==
    IF Abs(start_column - end_column) = num_pieces THEN TRUE
    ELSE IF Abs(start_row - end_row) = num_pieces THEN TRUE
    ELSE FALSE

check_move(start_row, start_column, end_row, end_column, num_pieces) ==
    IF start_row - end_row = 0 /\ Abs(start_column - end_column) = num_pieces THEN TRUE
    ELSE IF start_column - end_column = 0 /\ Abs(start_row - end_row) = num_pieces THEN TRUE
    ELSE FALSE

(* check_win with the captured test off by one *)
check_win_off_by_one(board, cap, player_name) ==
    /\ ~ (cap[player_name] <= WinCaptured)
    /\ \A pos \in Pos :
          Len(board[pos]) > 0 => ~ (board[pos][Len(board[pos])] # piece[player_name])

check_win(board, cap, player_name) ==
    /\ ~ (cap[player_name] < WinCaptured)
    /\ \A pos \in Pos :
          get_length(board[pos]) > 0 => ~ (display_top(board[pos]) # piece[player_name])

(* switch_turns with two ifs in place of if/else *)
switch_turns_two_ifs(turn) == first_player

switch_turns(turn) ==
    IF turn = first_player THEN second_player ELSE first_player

(* The loop of remove_pieces crediting the counters the wrong way round *)
RECURSIVE ShedLoop_swapped(_, _, _, _, _)
ShedLoop_swapped(k, data, res, cap, player_name) ==
    IF k = 0 THEN [data |-> data, reserve |-> res, captured |-> cap]
    ELSE IF Head(data) = piece[player_name]
         THEN ShedLoop_swapped(k - 1, Tail(data), res, cap + 1, player_name)
         ELSE ShedLoop_swapped(k - 1, Tail(data), res + 1, cap, player_name)

(* The loop of remove_pieces: k iterations, each dequeues the bottom piece *)
(* and credits it to the reserve or to the captured count of the player.   *)
RECURSIVE ShedLoop(_, _, _, _, _)
ShedLoop(k, data, res, cap, player_name) ==
    IF k = 0 THEN [data |-> data, reserve |-> res, captured |-> cap]
    ELSE LET d == dequeue(data)
         IN IF d.value = piece[player_name]
            THEN ShedLoop(k - 1, d.data, add_reserved(res), cap, player_name)
            ELSE ShedLoop(k - 1, d.data, res, add_captured(cap), player_name)

(* remove_pieces with a loop one iteration short *)
remove_pieces_one_short(data, res, cap, player_name) ==
    IF Len(data) > MAX_HEIGHT
    THEN ShedLoop(Len(data) - MAX_HEIGHT - 1, data, res, cap, player_name)
    ELSE [data |-> data, reserve |-> res, captured |-> cap]

(* remove_pieces that already sheds at MAX_HEIGHT *)
remove_pieces_at_height(data, res, cap, player_name) ==
    IF Len(data) >= MAX_HEIGHT
    THEN ShedLoop(Len(data) - MAX_HEIGHT + 1, data, res, cap, player_name)
    ELSE [data |-> data, reserve |-> res, captured |-> cap]

(* remove_pieces on the stack data for player_name, whose counters are res, cap *)
remove_pieces(data, res, cap, player_name) ==
    IF get_length(data) > MAX_HEIGHT
    THEN ShedLoop(get_length(data) - MAX_HEIGHT, data, res, cap, player_name)
    ELSE [data |-> data, reserve |-> res, captured |-> cap]

---------------------------------------------------------------------------
(* What a request returned.  A rejected request keeps only the return site. *)

NoPos == <<>>

Snapshot == [board |-> game_board, reserve |-> reserve,
             captured |-> captured, turn |-> player_turn]

Outcome(op, player_name, from, to, n, result, site) ==
    [op |-> op, player |-> player_name, from |-> from, to |-> to, n |-> n,
     result |-> result, site |-> site]

(* a return that passes the turn *)
Return_passing_turn(op, player_name, result, site) ==
    /\ UNCHANGED <<game_board, reserve, captured>>
    /\ player_turn' = IF player_turn = first_player THEN second_player ELSE first_player
    /\ last' = [op |-> op, player |-> player_name, from |-> <<>>, to |-> <<>>, n |-> 0,
                result |-> result, site |-> site]

Return(op, player_name, result, site) ==
    /\ UNCHANGED prog
    /\ last' = Outcome(op, player_name, NoPos, NoPos, 0, result, site)

---------------------------------------------------------------------------
(* FocusGame.reserved_move *)

(* reserved_move without the call of switch_turns *)
reserved_move_no_switch(player_name, position) ==
    /\ prev' = Snapshot
    /\ IF player_name \notin players
       THEN Return("reserved_move", player_name, "KeyError", "lookup")
       ELSE IF player_name # player_turn
       THEN Return("reserved_move", player_name, "False", "turn")
       ELSE IF reserve[player_name] <= 0
       THEN Return("reserved_move", player_name, "False", "reserve")
       ELSE IF ~ check_position(position[1], position[2])
       THEN Return("reserved_move", player_name, "False", "position")
       ELSE LET shed == remove_pieces(enqueue(game_board[position], piece[player_name]),
                                      remove_reserved(reserve[player_name]),
                                      captured[player_name], player_name)
            IN  /\ game_board' = [game_board EXCEPT ![position] = shed.data]
                /\ reserve' = [reserve EXCEPT ![player_name] = shed.reserve]
                /\ captured' = [captured EXCEPT ![player_name] = shed.captured]
                /\ player_turn' = player_turn
                /\ last' = Outcome("reserved_move", player_name, NoPos, position, 1,
                                   "None", "done")

reserved_move(player_name, position) ==
    LET row == position[1]
        column == position[2]
    IN  /\ prev' = Snapshot
        /\ IF player_name \notin players
           THEN Return("reserved_move", player_name, "KeyError", "lookup")
           ELSE IF player_name # player_turn
           THEN Return("reserved_move", player_name, "False", "turn")
           ELSE IF reserve[player_name] <= 0
           THEN Return("reserved_move", player_name, "False", "reserve")
           ELSE IF ~ check_position(row, column)
           THEN Return("reserved_move", player_name, "False", "position")
           ELSE LET data1 == enqueue(game_board[position], piece[player_name])
                    res1 == remove_reserved(reserve[player_name])
                    shed == remove_pieces(data1, res1, captured[player_name], player_name)
                IN  /\ game_board' = [game_board EXCEPT ![position] = shed.data]
                    /\ reserve' = [reserve EXCEPT ![player_name] = shed.reserve]
                    /\ captured' = [captured EXCEPT ![player_name] = shed.captured]
                    /\ player_turn' = switch_turns(player_turn)
                    /\ last' = Outcome("reserved_move", player_name, NoPos, position, 1,
                                       "None", "done")

---------------------------------------------------------------------------
(* FocusGame.move_piece *)

(* the end of move_piece without the assignment of None *)
end_of_move_no_sentinel(turn, wins) ==
    IF wins THEN [turn |-> switch_turns(turn), result |-> "Wins"]
    ELSE [turn |-> switch_turns(turn), result |-> "successfully moved"]

(* The end of move_piece: switch_turns, then the outcome of check_win. *)
end_of_move(turn, wins) ==
    LET switched == switch_turns(turn)
    IN  IF wins THEN [turn |-> NoPlayer, result |-> "Wins"]
        ELSE [turn |-> switched, result |-> "successfully moved"]

move_piece(player_name, move_from, move_to, num_pieces) ==
    LET start_row == move_from[1]
        start_column == move_from[2]
        end_row == move_to[1]
        end_column == move_to[2]
    IN  /\ prev' = Snapshot
        /\ IF player_name \notin players
           THEN Return("move_piece", player_name, "KeyError", "lookup")
           ELSE IF player_name # player_turn
           THEN Return("move_piece", player_name, "False", "turn")
           ELSE IF ~ check_position(start_row, start_column)
                   \/ ~ check_position(end_row, end_column)
           THEN Return("move_piece", player_name, "False", "position")
           ELSE IF num_pieces > get_length(game_board[move_from])
           THEN Return("move_piece", player_name, "False", "count")
           ELSE IF ~ check_move(start_row, start_column, end_row, end_column, num_pieces)
           THEN Return("move_piece", player_name, "False", "geometry")
           ELSE IF get_length(game_board[move_from]) = 0
           THEN Return("move_piece", player_name, "IndexError", "control")
           ELSE IF piece[player_name] # display_top(game_board[move_from])
           THEN Return("move_piece", player_name, "False", "control")
           ELSE LET taken == remove_items(game_board[move_from], num_pieces)
                    board1 == [game_board EXCEPT ![move_from] = taken.data]
                    board2 == [board1 EXCEPT
                                 ![move_to] = add_items(board1[move_to], taken.removed_pieces)]
                    shed == remove_pieces(board2[move_to], reserve[player_name],
                                          captured[player_name], player_name)
                    board3 == [board2 EXCEPT ![move_to] = shed.data]
                    cap3 == [captured EXCEPT ![player_name] = shed.captured]
                    end == end_of_move(player_turn, check_win(board3, cap3, player_name))
                IN  /\ game_board' = board3
                    /\ reserve' = [reserve EXCEPT ![player_name] = shed.reserve]
                    /\ captured' = cap3
                    /\ player_turn' = end.turn
                    /\ last' = Outcome("move_piece", player_name, move_from, move_to,
                                       num_pieces, end.result, "done")

---------------------------------------------------------------------------
(* The caller *)

MoveRequest(player_name, move_from, move_to, num_pieces) ==
    [op |-> "move_piece", player |-> player_name, from |-> move_from, to |-> move_to,
     n |-> num_pieces]

ReserveRequest(player_name, position) ==
    [op |-> "reserved_move", player |-> player_name, from |-> NoPos, to |-> position,
     n |-> 1]

(* A recorded game: it is legal move by move and its last move wins. *)
Script == <<
    MoveRequest(first_player, <<2, 1>>, <<3, 1>>, 1),
    MoveRequest(second_player, <<1, 0>>, <<1, 1>>, 1),
    MoveRequest(first_player, <<3, 1>>, <<1, 1>>, 2),
    MoveRequest(second_player, <<5, 0>>, <<5, 1>>, 1),
    MoveRequest(first_player, <<1, 1>>, <<5, 1>>, 4),
    MoveRequest(second_player, <<3, 4>>, <<3, 5>>, 1),
    MoveRequest(first_player, <<5, 2>>, <<5, 1>>, 1),
    MoveRequest(second_player, <<3, 5>>, <<5, 5>>, 2),
    MoveRequest(first_player, <<4, 1>>, <<5, 1>>, 1),
    MoveRequest(second_player, <<5, 4>>, <<5, 5>>, 1),
    MoveRequest(first_player, <<5, 1>>, <<5, 5>>, 4),
    MoveRequest(second_player, <<0, 2>>, <<0, 3>>, 1),
    MoveRequest(first_player, <<4, 5>>, <<5, 5>>, 1),
    MoveRequest(second_player, <<0, 3>>, <<0, 5>>, 2),
    MoveRequest(first_player, <<5, 5>>, <<0, 5>>, 5),
    MoveRequest(second_player, <<4, 2>>, <<4, 3>>, 1),
    MoveRequest(first_player, <<0, 4>>, <<0, 5>>, 1),
    MoveRequest(second_player, <<4, 3>>, <<2, 3>>, 2),
    MoveRequest(first_player, <<2, 4>>, <<2, 3>>, 1),
    MoveRequest(second_player, <<2, 2>>, <<2, 3>>, 1),
    MoveRequest(first_player, <<3, 3>>, <<2, 3>>, 1),
    MoveRequest(second_player, <<1, 4>>, <<1, 5>>, 1),
    MoveRequest(first_player, <<1, 3>>, <<2, 3>>, 1),
    MoveRequest(second_player, <<1, 5>>, <<3, 5>>, 2),
    ReserveRequest(first_player, <<2, 3>>),
    MoveRequest(second_player, <<3, 5>>, <<5, 5>>, 2),
    MoveRequest(first_player, <<0, 5>>, <<5, 5>>, 5),
    MoveRequest(second_player, <<5, 1>>, <<5, 0>>, 1),
    MoveRequest(first_player, <<5, 5>>, <<5, 0>>, 5),
    MoveRequest(second_player, <<3, 0>>, <<2, 0>>, 1),
    MoveRequest(first_player, <<2, 3>>, <<2, 0>>, 3),
    MoveRequest(second_player, <<2, 3>>, <<2, 5>>, 2),
    MoveRequest(first_player, <<0, 1>>, <<0, 0>>, 1),
    MoveRequest(second_player, <<2, 5>>, <<2, 2>>, 3),
    MoveRequest(first_player, <<0, 0>>, <<2, 0>>, 2),
    MoveRequest(second_player, <<2, 2>>, <<2, 5>>, 3),
    MoveRequest(first_player, <<2, 0>>, <<2, 5>>, 5)
>>

Coords == (0 - OutMargin) .. (BoardSize - 1 + OutMargin)

InputPos == Coords \X Coords

InputNames == players \cup {Stranger}

Counts == (0 - 1) .. MaxCount

Accepted(l) == l.site = "done"

(* The operation a request of the recorded game asks for. *)
Do(request) ==
    IF request.op = "move_piece"
    THEN move_piece(request.player, request.from, request.to, request.n)
    ELSE reserved_move(request.player, request.to)

(* What asked holds when the caller keeps no log of its requests. *)
NotLogged == [op |-> "none"]

(* After a request of its own the caller is in mode "probe" if the request *)
(* was rejected and in mode "left" if it was accepted.                      *)
AfterFree(l) == IF Accepted(l) THEN "left" ELSE "probe"

---------------------------------------------------------------------------
Init ==
    /\ game_board = InitialBoard
    /\ reserve = [p \in players |-> 0]
    /\ captured = [p \in players |-> 0]
    /\ player_turn = first_player
    /\ last = Outcome("init", NoPlayer, NoPos, NoPos, 0, "None", "init")
    /\ prev = Snapshot
    /\ idx = 0
    /\ mode = "replay"
    /\ asked = NotLogged

(* The caller issues the next operation of the recorded game. *)
Replay ==
    /\ mode # "left"
    /\ idx < Len(Script)
    /\ Do(Script[idx + 1])
    /\ idx' = idx + 1
    /\ mode' = "replay"
    /\ asked' = NotLogged

(* The caller issues any reserved_move request. *)
ReservedMove ==
    /\ mode = "replay"
    /\ \E player_name \in InputNames, position \in InputPos :
          reserved_move(player_name, position)
    /\ idx' = idx
    /\ mode' = AfterFree(last')
    /\ asked' = NotLogged

(* The caller issues any move_piece request. *)
MovePiece ==
    /\ mode = "replay"
    /\ \E player_name \in InputNames, move_from \in InputPos, move_to \in InputPos,
          num_pieces \in Counts :
          move_piece(player_name, move_from, move_to, num_pieces)
    /\ idx' = idx
    /\ mode' = AfterFree(last')
    /\ asked' = NotLogged

Next == Replay \/ ReservedMove \/ MovePiece

Spec == Init /\ [][Next]_vars

---------------------------------------------------------------------------
(* The first request on a new game: the caller makes one request with any  *)
(* arguments on the board as constructed and logs it with its arguments,   *)
(* whether it is accepted or rejected.                                     *)

FirstReserved ==
    /\ idx = 0
    /\ mode = "replay"
    /\ \E player_name \in InputNames, position \in InputPos :
          /\ reserved_move(player_name, position)
          /\ asked' = ReserveRequest(player_name, position)
    /\ idx' = idx
    /\ mode' = AfterFree(last')

FirstMove ==
    /\ idx = 0
    /\ mode = "replay"
    /\ \E player_name \in InputNames, move_from \in InputPos, move_to \in InputPos,
          num_pieces \in Counts :
          /\ move_piece(player_name, move_from, move_to, num_pieces)
          /\ asked' = MoveRequest(player_name, move_from, move_to, num_pieces)
    /\ idx' = idx
    /\ mode' = AfterFree(last')

NextFirst == FirstReserved \/ FirstMove

SpecFirst == Init /\ [][NextFirst]_vars

---------------------------------------------------------------------------
(* Vocabulary of the properties *)

Other(p) == IF p = first_player THEN second_player ELSE first_player

AcceptedMove == last.op = "move_piece" /\ Accepted(last)

AcceptedReserve == last.op = "reserved_move" /\ Accepted(last)

Rejected == last.result = "False"

TopN(data, n) == SubSeq(data, Len(data) - n + 1, Len(data))

DropTopN(data, n) == SubSeq(data, 1, Len(data) - n)

(* data cut down to MAX_HEIGHT pieces by dropping bottom pieces *)
KeepTop(data) == SubSeq(data, Max(0, Len(data) - MAX_HEIGHT) + 1, Len(data))

(* the bottom pieces of data above MAX_HEIGHT *)
Excess(data) == SubSeq(data, 1, Max(0, Len(data) - MAX_HEIGHT))

CountOf(sym, data) == Cardinality({i \in 1 .. Len(data) : data[i] = sym})

(* what lands on the to cell of the last accepted move_piece, before shedding *)
Landed == prev.board[last.to] \o TopN(prev.board[last.from], last.n)

TopsAll(sym) == \A pos \in Pos : game_board[pos] # <<>> => display_top(game_board[pos]) = sym

---------------------------------------------------------------------------
(* C1: after every accepted reserved_move or move_piece that does not      *)
(* report a win the turn-holder is the other player than the one who       *)
(* acted, who was the turn-holder; the first turn-holder is the            *)
(* first-constructed player.                                               *)
C1_TurnAlternates ==
    /\ last.op = "init" => player_turn = first_player
    /\ Accepted(last) /\ last.result # "Wins" =>
          /\ last.player = prev.turn
          /\ last.player \in players
          /\ player_turn = Other(last.player)
          /\ player_turn # prev.turn

C1_Witness ==
    /\ idx >= 3
    /\ AcceptedReserve
    /\ prev.turn = first_player
    /\ player_turn = second_player

(* C2: a rejected reserved_move or move_piece leaves every cell's stack,   *)
(* both players' reserve and captured counts and the turn-holder unchanged. *)
C2_RejectedUnchanged ==
    Rejected =>
        /\ game_board = prev.board
        /\ reserve = prev.reserve
        /\ captured = prev.captured
        /\ player_turn = prev.turn

C2_Witness ==
    /\ Rejected
    /\ last.op = "move_piece"
    /\ last.site = "control"
    /\ idx >= 5
    /\ game_board = prev.board

C4_MoveCounts ==
    AcceptedMove =>
        LET mover == last.player
            shedded == Excess(Landed)
            own == CountOf(piece[mover], shedded)
        IN  /\ Len(game_board[last.from]) = Len(prev.board[last.from]) - last.n
            /\ Len(game_board[last.to]) = Min(MAX_HEIGHT, Len(prev.board[last.to]) + last.n)
            /\ reserve[mover] = prev.reserve[mover] + own
            /\ captured[mover] = prev.captured[mover] + (Len(shedded) - own)
            /\ reserve[mover] + captured[mover] =
                  prev.reserve[mover] + prev.captured[mover]
                  + Max(0, Len(prev.board[last.to]) + last.n - MAX_HEIGHT)

C4_Witness ==
    /\ AcceptedMove
    /\ Len(Excess(Landed)) >= 2
    /\ reserve[last.player] > prev.reserve[last.player]
    /\ captured[last.player] > prev.captured[last.player]

(* C5 as claimed: after every accepted reserved_move the acting player's   *)
(* reserve count is exactly one less than before.                          *)
C5_ReserveOneLess ==
    AcceptedReserve => reserve[last.player] = prev.reserve[last.player] - 1

(* C5 as amended: after an accepted reserved_move the acting player's      *)
(* reserve count is one less than before, except that it is unchanged      *)
(* when the target cell already held 5 pieces with the acting player's     *)
(* symbol at the bottom (that piece is shed back into the reserve).        *)
C5_ReserveNet ==
    AcceptedReserve =>
        LET old == prev.board[last.to]
            back == IF Len(old) >= MAX_HEIGHT /\ old[1] = piece[last.player] THEN 1 ELSE 0
        IN  reserve[last.player] = prev.reserve[last.player] - 1 + back

C5_Witness ==
    /\ AcceptedReserve
    /\ Len(prev.board[last.to]) = MAX_HEIGHT
    /\ prev.board[last.to][1] = piece[last.player]
    /\ prev.reserve[last.player] >= 1

(* C6: an accepted move_piece reports the win and sets the turn state to   *)
(* the terminal sentinel exactly when, after the move and its height       *)
(* reduction, the mover's captured count is >= 18 and every non-empty cell *)
(* has the mover's symbol on top; otherwise it reports the moved outcome   *)
(* and the turn state names the other player.                              *)
C6_WinExactly ==
    AcceptedMove =>
        LET mover == last.player
            won == captured[mover] >= WinCaptured /\ TopsAll(piece[mover])
        IN  /\ won => last.result = "Wins" /\ player_turn = NoPlayer
            /\ ~ won => last.result = "successfully moved" /\ player_turn = Other(mover)
            /\ last.result = "Wins" => TopsAll(piece[mover])

C6_Witness ==
    /\ AcceptedMove
    /\ last.result = "Wins"
    /\ captured[last.player] >= WinCaptured
    /\ player_turn = NoPlayer

(* C7: once a move_piece has reported a win the turn state is the terminal *)
(* sentinel and stays so; every later request of a named player is         *)
(* rejected and the board and the counters do not change.                  *)
C7_TerminalForever ==
    /\ last.result = "Wins" => player_turn = NoPlayer
    /\ prev.turn = NoPlayer =>
          /\ player_turn = NoPlayer
          /\ game_board = prev.board
          /\ reserve = prev.reserve
          /\ captured = prev.captured
          /\ last.player \in players => Rejected /\ last.site = "turn"

C7_Witness ==
    /\ prev.turn = NoPlayer
    /\ last.op = "move_piece"
    /\ last.player = second_player
    /\ Rejected
    /\ player_turn = NoPlayer

(* C8 as claimed: a move_piece request with count = 0 is always rejected,  *)
(* so no accepted move_piece has count 0.                                  *)
C8_ZeroCountRejected ==
    AcceptedMove => last.n # 0

(* C9: an accepted move_piece is between two in-bounds positions, its      *)
(* |row difference| + |column difference| equals count, and the row        *)
(* difference or the column difference is zero.                            *)
C9_StraightLine ==
    AcceptedMove =>
        LET dr == Abs(last.from[1] - last.to[1])
            dc == Abs(last.from[2] - last.to[2])
        IN  /\ last.from \in Pos
            /\ last.to \in Pos
            /\ dr + dc = last.n
            /\ dr = 0 \/ dc = 0

C9_Witness ==
    /\ AcceptedMove
    /\ last.from[2] = last.to[2]
    /\ Abs(last.from[1] - last.to[1]) = last.n
    /\ last.n >= 2

(* C10: a move_piece is accepted only if, before the move, the from stack  *)
(* is non-empty and its top piece is the acting player's symbol.           *)
C10_TopControl ==
    AcceptedMove =>
        /\ prev.board[last.from] # <<>>
        /\ prev.board[last.from][Len(prev.board[last.from])] = piece[last.player]

C10_Witness ==
    /\ AcceptedMove
    /\ Len(prev.board[last.from]) >= 2
    /\ prev.board[last.from][1] # piece[last.player]
    /\ prev.board[last.from][Len(prev.board[last.from])] = piece[last.player]

(* C11 as claimed: on the initial board the first player's move_piece from *)
(* (0,0) to (0,2) with count = 2 is accepted and (0,2) then holds its      *)
(* prior contents with two pieces of that player's symbol above them.      *)
C11_ExampleAccepted ==
    asked = MoveRequest(first_player, <<0, 0>>, <<0, 2>>, 2) =>
        /\ Accepted(last)
        /\ game_board[<<0, 2>>] =
              prev.board[<<0, 2>>] \o <<piece[first_player], piece[first_player]>>
        /\ game_board[<<0, 2>>][Len(game_board[<<0, 2>>])] = piece[first_player]

(* C11 as amended: on the initial board the first player holds the symbol  *)
(* at (0,0) and (0,1); the move_piece from (0,0) to (0,2) with count = 2   *)
(* is rejected, (0,0) holding one piece, and changes nothing; the          *)
(* move_piece from (0,1) to (0,2) with count = 1 is accepted and (0,2)     *)
(* then holds its prior contents with one piece of that player's symbol    *)
(* on top.                                                                 *)
C11_ExampleRejected ==
    /\ asked # NotLogged =>
          /\ prev.board[<<0, 0>>] = <<piece[first_player]>>
          /\ prev.board[<<0, 1>>] = <<piece[first_player]>>
    /\ asked = MoveRequest(first_player, <<0, 0>>, <<0, 2>>, 2) =>
          /\ Rejected
          /\ last.site = "count"
          /\ game_board = prev.board
          /\ reserve = prev.reserve
          /\ captured = prev.captured
          /\ player_turn = first_player
    /\ asked = MoveRequest(first_player, <<0, 1>>, <<0, 2>>, 1) =>
          /\ Accepted(last)
          /\ game_board[<<0, 2>>] = prev.board[<<0, 2>>] \o <<piece[first_player]>>
          /\ game_board[<<0, 1>>] = <<>>

C11_Witness ==
    /\ asked = MoveRequest(first_player, <<0, 0>>, <<0, 2>>, 2)
    /\ Rejected
    /\ last.site = "count"
    /\ prev.board = InitialBoard

(* Some request of player p would be accepted in the current state: p has  *)
(* a reserve piece to place, or a stack with p's symbol on top and a count *)
(* and a target that pass the checks of move_piece.                        *)
CanAct(p) ==
    \/ reserve[p] > 0
    \/ \E move_from \in Pos, move_to \in Pos, num_pieces \in 0 .. MAX_HEIGHT :
          /\ ~ (num_pieces > get_length(game_board[move_from]))
          /\ check_move(move_from[1], move_from[2], move_to[1], move_to[2], num_pieces)
          /\ game_board[move_from] # <<>>
          /\ display_top(game_board[move_from]) = piece[p]

(* C12 as claimed: in every non-terminal state the turn-holder has at      *)
(* least one reserved_move or move_piece request that is accepted.         *)
C12_NeverStuck ==
    player_turn \in players => CanAct(player_turn)

(* C13 as claimed: every reserved_move and move_piece request ends with a  *)
(* result value; no request ends in a raised error.                        *)
C13_NoRaise ==
    last.result \notin {"KeyError", "IndexError"}

(* the symbol of the starting layout at row r, column c *)
LayoutSymbol(r, c) == IF (r % 2 = 0) = (c \in {2, 3}) THEN "G" ELSE "R"

PiecesEach == (BoardSize * BoardSize) \div 2

(* the number of pieces of symbol sym on the board *)
OnBoard(board, sym) ==
    Cardinality({x \in Pos \X (1 .. BoardSize * BoardSize) :
                    x[2] <= Len(board[x[1]]) /\ board[x[1]][x[2]] = sym})

Fresh == prev.board = InitialBoard /\ prev.turn = first_player
         /\ prev.reserve = [p \in players |-> 0] /\ prev.captured = [p \in players |-> 0]

(* C14: initially every cell holds exactly one piece as in the starting    *)
(* layout, 18 of each symbol, both players have reserve 0 and captured 0   *)
(* and the first player holds the turn; every request of the second        *)
(* player made before the first player has completed an operation is       *)
(* rejected and changes nothing.                                           *)
C14_InitialState ==
    /\ last.op = "init" =>
          /\ \A pos \in Pos : game_board[pos] = <<LayoutSymbol(pos[1], pos[2])>>
          /\ OnBoard(game_board, "R") = 18
          /\ OnBoard(game_board, "G") = 18
          /\ \A p \in players : reserve[p] = 0 /\ captured[p] = 0
          /\ player_turn = first_player
    /\ idx = 0 /\ Fresh /\ last.player = second_player =>
          /\ Rejected
          /\ game_board = prev.board
          /\ reserve = prev.reserve
          /\ captured = prev.captured
          /\ player_turn = first_player

C14_Witness ==
    /\ idx = 0
    /\ Fresh
    /\ last.player = second_player
    /\ last.op = "move_piece"
    /\ Rejected
    /\ game_board = InitialBoard

(* C15: an accepted reserved_move never puts the engine into the terminal  *)
(* phase and always hands the turn to the other player.                    *)
C15_ReserveNeverWins ==
    AcceptedReserve =>
        /\ player_turn # NoPlayer
        /\ player_turn = Other(last.player)
        /\ last.result # "Wins"

C15_Witness ==
    /\ AcceptedReserve
    /\ TopsAll(piece[last.player])
    /\ player_turn = Other(last.player)

(* C16: after an accepted reserved_move the target cell holds its old      *)
(* contents with one piece of the acting player's symbol on top, less the  *)
(* bottom piece when it already held 5 pieces; every other cell is         *)
(* unchanged.                                                              *)
C16_ReservePlacement ==
    AcceptedReserve =>
        LET old == prev.board[last.to]
            placed == old \o <<piece[last.player]>>
        IN  /\ game_board[last.to] = (IF Len(old) >= MAX_HEIGHT THEN Tail(placed) ELSE placed)
            /\ game_board[last.to][Len(game_board[last.to])] = piece[last.player]
            /\ \A pos \in Pos : pos # last.to => game_board[pos] = prev.board[pos]

C16_Witness ==
    /\ AcceptedReserve
    /\ Len(prev.board[last.to]) = MAX_HEIGHT
    /\ prev.board[last.to][1] # piece[last.player]

(* C17: every cell's stack holds at most 5 pieces after every request.     *)
C17_MaxHeight ==
    \A pos \in Pos : Len(game_board[pos]) <= MAX_HEIGHT

C17_Witness ==
    /\ AcceptedMove
    /\ Len(Landed) >= MAX_HEIGHT + 3
    /\ Len(game_board[last.to]) = MAX_HEIGHT

(* C18: an accepted request leaves the other player's reserve and captured *)
(* counts unchanged; a move_piece changes no cell other than from and to   *)
(* and changes the mover's counters only when pieces are shed at to.       *)
C18_Frame ==
    /\ Accepted(last) =>
          /\ reserve[Other(last.player)] = prev.reserve[Other(last.player)]
          /\ captured[Other(last.player)] = prev.captured[Other(last.player)]
    /\ AcceptedMove =>
          /\ \A pos \in Pos :
                pos # last.from /\ pos # last.to => game_board[pos] = prev.board[pos]
          /\ Len(Landed) <= MAX_HEIGHT =>
                /\ reserve[last.player] = prev.reserve[last.player]
                /\ captured[last.player] = prev.captured[last.player]

C18_Witness ==
    /\ AcceptedMove
    /\ CountOf(piece[Other(last.player)], Excess(Landed)) >= 1
    /\ captured[Other(last.player)] > 0
    /\ captured[Other(last.player)] = prev.captured[Other(last.player)]

(* C19: for each symbol, the pieces of it on the board plus the reserve of *)
(* the player who owns it plus the captured count of the other player are  *)
(* 18; the board, both reserves and both captured counts total 36.         *)
C19_Conservation ==
    /\ \A p \in players :
          OnBoard(game_board, piece[p]) + reserve[p] + captured[Other(p)] = PiecesEach
    /\ OnBoard(game_board, "R") + OnBoard(game_board, "G")
          + reserve[first_player] + reserve[second_player]
          + captured[first_player] + captured[second_player] = 2 * PiecesEach

C19_Witness ==
    /\ AcceptedReserve
    /\ captured[last.player] > prev.captured[last.player]
    /\ OnBoard(game_board, "R") + OnBoard(game_board, "G") < 2 * PiecesEach

(* C20: each player's reserve count is >= 0 and captured count is between  *)
(* 0 and 18; no request decreases a captured count, and a reserve count    *)
(* decreases only by that player's own accepted reserved_move.             *)
C20_Counters ==
    \A p \in players :
        /\ reserve[p] >= 0
        /\ captured[p] >= 0
        /\ captured[p] <= PiecesEach
        /\ captured[p] >= prev.captured[p]
        /\ reserve[p] < prev.reserve[p] => AcceptedReserve /\ last.player = p

C20_Witness ==
    /\ AcceptedReserve
    /\ reserve[last.player] = 0
    /\ prev.reserve[last.player] = 1
    /\ captured[last.player] > 0

====
